---- MODULE Spec2Model ----
(***************************************************************************)
(* Model of main.py (De_Looper): the stream orchestrator.  One playback     *)
(* loop relays each playlist entry's transform output into the long-lived   *)
(* sink process (stream_proc), plays a filler after each clip, saves the    *)
(* progress and restarts the sink when it is too old; a chat listener       *)
(* thread counts skip votes and sets skip_event.                            *)
(***************************************************************************)
EXTENDS Integers, Sequences, FiniteSets, TLC

(* ------------------------------ bounds ---------------------------------- *)
\* chunks (reads of 65536 bytes) a clip's transform process emits
ClipLen == 3
\* chunks the filler process of play_transition emits
FillerLen == 1
\* chunks an OS pipe holds before the writing child blocks
PipeCap == 1
\* failures of child processes (transform or filler) in one run
MaxCrashes == 1
\* entries the playlist file grows to while the program runs
MaxPlaylist == 3
\* termination signals delivered in one run
MaxSignals == 2

(* --------------------------- program constants -------------------------- *)
\* main.py:24, in clock ticks instead of seconds
max_stream_duration == 1
\* main.py:239
skip_threshold == 3

\* Python's None for a videoNumber (videoNumbers are positive here)
None == 0
\* the id a filler segment has in clipLog
Filler == 0
\* contents of progress.json that hold no cursor: an empty file, text that is
\* not JSON, bytes that are not UTF-8 (None: no file)
EmptyFile == 0 - 1
BadJson == 0 - 2
BadBytes == 0 - 3
\* playlist.json and progress.json (None: no file) at program start
Starts == { << <<1, 2, 3>>, None >>,
            << <<1, 2, 3>>, 2 >>,
            << <<1, 1, 2>>, 1 >>,
            << <<2, 1>>, 1 >>,
            << <<2, 1>>, 3 >>,
            << <<>>, None >> }
\* playlists in which a videoNumber occurs twice
DupStarts == { << <<1, 1, 2>>, None >>,
               << <<1, 2, 1>>, None >>,
               << <<1, 1, 2>>, 1 >> }
\* starts with every kind of stored cursor, and the values of --video_number
\* they are combined with: none, an id of the playlist, an id not in it
ResumeStarts == { << <<2, 1>>, None >>,
                  << <<2, 1>>, 1 >>,
                  << <<2, 1>>, 2 >>,
                  << <<2, 1>>, 3 >> }
StartIds == { None, 1, 2, 3 }
\* starts with every kind of progress.json: none, an empty one, one that is
\* not JSON, one that is not UTF-8, one with a cursor
LoadStarts == { << <<2, 1>>, None >>,
                << <<2, 1>>, EmptyFile >>,
                << <<2, 1>>, BadJson >>,
                << <<2, 1>>, BadBytes >>,
                << <<2, 1>>, 2 >> }
\* the start of the runs that follow the chat listener
ChatStarts == { << <<2, 1>>, None >> }

\* chat user names and message texts, as sequences of characters
alice == <<"a", "l">>
Alice == <<"A", "l">>
bob == <<"b", "o">>
carol == <<"c", "a">>
Mod == <<"M", "o", "d">>
mod == <<"m", "o", "d">>
Users == { alice, Alice, bob, carol, Mod, mod }
\* config.json: Instant_Skip_Users
Instant_Skip_Users == { Mod }
Texts == { <<"!", "s", "k", "i", "p">>,
           <<" ", "!", "S", "K", "i", "p", " ">>,
           <<"!", "s", "k", "i", "p", "s">>,
           <<"h", "i", " ", "!", "s", "k", "i", "p">> }
SkipKeyword == <<"!", "s", "k", "i", "p">>

VARIABLES
    pc,               \* position of the playback loop (main thread)
    playlist,         \* content of playlist.json
    progress,         \* content of progress.json
    last_played,      \* last_played_videoNumber of stream_and_recheck_playlist
    media_files,      \* the snapshot of the playlist of the current pass
    idx,              \* index into media_files (1-based)
    played_ids,       \* played_ids of stream_and_recheck_playlist
    stream_proc,      \* the sink process: "none", "alive", "dead"
    leaked,           \* sink processes alive that stream_proc no longer refers to
    age,              \* time.time() - stream_start_time, up to one tick over the ceiling
    normalize_proc,   \* the transform child: [st, total, rc]
    nread,            \* chunks of normalize_proc read so far
    transition_proc,  \* the filler child: [st, total, rc]
    tread,            \* chunks of transition_proc read so far
    crashes,          \* child process failures so far
    outcome,          \* how the relay loop of pipe_to_stream was left
    skip_event,       \* threading.Event
    chat,             \* the chat thread: "off", "listening", "closed"
    skip_votes,       \* skip_votes of monitor_chat
    clipLog,          \* history: segments <<id, chunk>> written to the sink since
                      \* the current entry was started
    started,          \* history: <<idx, id>> of every clip started
    quiet,            \* history: no skip trigger, sink death or child failure yet
    firstPass,        \* history: the first pass has not wrapped around yet
    skipInRelay,      \* history: trigger set in this relay with chunks unwritten
    clipVoters,       \* history: normalized ids that voted during this relay
    lastSkipBy,       \* history: what set skip_event last: "none", "votes", "instant"
    sinks_started,    \* history: sink processes started so far
    lastRelayed,      \* history: id of the last entry whose relay loop was left
    skipInTransition, \* history: skip_event was last set during a transition
    signals,          \* history: termination signals handled so far
    chunksAfterSkip,  \* history: chunks written in this relay after skip_event
                      \* was set in it
    hpc,              \* position of graceful_shutdown while the main thread runs
                      \* it: "none", "norm", "nwait", "sink", "swait", "exit"
    reentered,        \* history: a signal arrived while graceful_shutdown ran
    irc,              \* the chat server as send_message_to_chat finds it:
                      \* "up", "down"
    start_id,         \* --video_number of the command line (None: not given)
    announceErr,      \* history: the announcement of the current entry failed
    chatter,          \* history: a message that is not the skip command was
                      \* handled
    collapsed,        \* history: since the current entry was started,
                      \* skip_event was set while it was set
    traced            \* whether this run records chatter and collapsed

vars == << pc, playlist, progress, last_played, media_files, idx, played_ids,
           stream_proc, leaked, age, normalize_proc, nread,
           transition_proc, tread, crashes, outcome, skip_event, chat, skip_votes,
           clipLog, started, quiet, firstPass, skipInRelay, clipVoters,
           lastSkipBy, sinks_started, lastRelayed, skipInTransition, signals,
           chunksAfterSkip, hpc, reentered, irc, start_id, announceErr,
           chatter, collapsed, traced >>

loopVars == << pc, last_played, media_files, idx, played_ids, outcome >>
storeVars == << playlist, progress >>
sinkVars == << stream_proc, leaked, age >>
clipVars == << normalize_proc, nread >>
fillerVars == << transition_proc, tread >>
envVars == << crashes >>
chatVars == << chat, skip_votes >>
histVars == << clipLog, started, quiet, firstPass, skipInRelay, clipVoters,
              lastSkipBy, sinks_started >>
\* the history variables the chat listener and the sink leave alone
playVars == << clipLog, started, firstPass >>
\* the history of relay ends and of the places skip_event was set at
markVars == << lastRelayed, skipInTransition >>
\* the signal handler's state, the chat server, the command line and the
\* outcome of the last announcement
auxVars == << signals, hpc, reentered, irc, start_id, announceErr, chatter,
             collapsed, traced >>

(* ------------------------------ helpers --------------------------------- *)
Range(s) == { s[i] : i \in 1..Len(s) }
Min(a, b) == IF a < b THEN a ELSE b
NoProc == [st |-> "none", total |-> 0, rc |-> 0]

\* str.lower() on the characters the model uses
LowerChar(c) ==
    CASE c = "A" -> "a"
      [] c = "M" -> "m"
      [] c = "S" -> "s"
      [] c = "K" -> "k"
      [] OTHER -> c
Lower(s) == [i \in 1..Len(s) |-> LowerChar(s[i])]

\* str.strip(): drop leading and trailing blanks
RECURSIVE LStrip(_)
LStrip(s) == IF s # <<>> /\ Head(s) = " " THEN LStrip(Tail(s)) ELSE s
RECURSIVE RStrip(_)
RStrip(s) ==
    IF s # <<>> /\ s[Len(s)] = " " THEN RStrip(SubSeq(s, 1, Len(s) - 1)) ELSE s
Strip(s) == RStrip(LStrip(s))

\* main.py:267  message.strip().lower() == '!skip'
IsSkipCommand_startsWith(t) ==
    /\ Len(Strip(t)) >= Len(SkipKeyword)
    /\ SubSeq(Lower(Strip(t)), 1, Len(SkipKeyword)) = SkipKeyword
IsSkipCommand(t) == Lower(Strip(t)) = SkipKeyword

\* main.py:268-270  username.lower() in [user.lower() for user in Instant_Skip_Users]
IsInstantSkipUser_caseSensitive(u) == u \in Instant_Skip_Users
IsInstantSkipUser(u) == Lower(u) \in { Lower(x) : x \in Instant_Skip_Users }

\* main.py:421-432  the for/else scan for last_played_videoNumber; 1-based result
RECURSIVE FindFrom(_, _, _)
FindFrom(files, last, i) ==
    IF i > Len(files) THEN 1
    ELSE IF files[i] = last THEN i + 1
    ELSE FindFrom(files, last, i + 1)
StartIndex_noPlusOne(files, last) ==
    IF last = None THEN 1
    ELSE IF last \in Range(files)
         THEN (CHOOSE i \in 1..Len(files) : files[i] = last /\ \A j \in 1..(i - 1) : files[j] # last)
         ELSE 1
StartIndex(files, last) == IF last # None THEN FindFrom(files, last, 1) ELSE 1

\* main.py:332 / 135  stream_proc and stream_proc.stdin and stream_proc.poll() is None
SinkWritable == stream_proc = "alive"

\* main.py:104  stream_proc is None or stream_proc.poll() is not None
TransitionSkipped_always == TRUE
TransitionSkipped_never == FALSE
TransitionSkipped == stream_proc \in {"none", "dead"}

\* main.py:442  media_id in played_ids
AlreadyPlayed_never(id) == FALSE
AlreadyPlayed(id) == id \in played_ids

\* main.py:473-485  close stdin, terminate, wait(5), kill, wait: the old sink's state
StopSink_forgotten(st) == st
StopSink(st) == IF st = "alive" THEN "dead" ELSE st

\* main.py:493  idx += 1
NextIdx_retryFailed(i) == IF normalize_proc.rc # 0 THEN i ELSE i + 1
NextIdx(i) == i + 1

MediaId == media_files[idx]

(* ------------------------------- Init ----------------------------------- *)
InitAll(S, A, T) ==
    /\ pc = "main"
    /\ \E s \in S : playlist = s[1] /\ progress = s[2]
    /\ start_id \in A
    /\ traced = T
    /\ last_played = None
    /\ media_files = <<>>
    /\ idx = 1
    /\ played_ids = {}
    /\ stream_proc = "none"
    /\ leaked = 0
    /\ age = 0
    /\ normalize_proc = NoProc
    /\ nread = 0
    /\ transition_proc = NoProc
    /\ tread = 0
    /\ crashes = 0
    /\ outcome = "none"
    /\ skip_event = FALSE
    /\ chat = "off"
    /\ skip_votes = {}
    /\ clipLog = <<>>
    /\ started = <<>>
    /\ quiet = TRUE
    /\ firstPass = TRUE
    /\ skipInRelay = FALSE
    /\ clipVoters = {}
    /\ lastSkipBy = "none"
    /\ sinks_started = 0
    /\ lastRelayed = None
    /\ skipInTransition = FALSE
    /\ signals = 0
    /\ chunksAfterSkip = 0
    /\ hpc = "none"
    /\ reentered = FALSE
    /\ irc = "up"
    /\ announceErr = FALSE
    /\ chatter = FALSE
    /\ collapsed = FALSE

InitWith(S, A) == InitAll(S, A, FALSE)
\* without --video_number
InitFrom(S) == InitWith(S, {None})
Init == InitFrom(Starts)
InitChat == InitFrom(ChatStarts)
InitDup == InitFrom(DupStarts)
InitResume == InitWith(ResumeStarts, StartIds)
InitTraced == InitAll(ChatStarts, {None}, TRUE)
InitLoad == InitFrom(LoadStarts)

(* -------------------------- the playback loop --------------------------- *)
\* main.py:176-186 load_progress on the content of progress.json: no file,
\* an empty file and text that is not JSON give None (JSONDecodeError is
\* caught); a saved cursor is returned as it is
load_progress(f) == IF f \in {None, EmptyFile, BadJson} THEN None ELSE f
\* main.py:180-181: bytes that are not UTF-8 raise UnicodeDecodeError in
\* json.load, which is not a JSONDecodeError and is caught nowhere
LoadRaises(f) == f = BadBytes

\* main.py:506-524 main, and 402-409: take the cursor of the command line or
\* load it, start the chat thread, start the sink
Main ==
    /\ UNCHANGED << envVars, markVars, auxVars, chunksAfterSkip >>
    /\ pc = "main"
    /\ IF start_id = None /\ LoadRaises(progress)
         THEN /\ pc' = "died"
              /\ UNCHANGED << last_played, chat, stream_proc, age, sinks_started >>
         ELSE /\ last_played' = IF start_id # None THEN start_id
                                                  ELSE load_progress(progress)
              /\ chat' = "listening"
              /\ stream_proc' = "alive"
              /\ age' = 0
              /\ pc' = "fetch"
              /\ sinks_started' = sinks_started + 1
    /\ UNCHANGED << media_files, idx, played_ids, outcome, leaked, skip_votes,
                    skip_event >>
    /\ UNCHANGED << storeVars, clipVars, fillerVars >>
    /\ UNCHANGED << clipLog, started, quiet, firstPass, skipInRelay, clipVoters,
                    lastSkipBy >>

\* main.py:411-434: re-read the playlist, find the start index
Fetch_staleSnapshot ==
    /\ UNCHANGED << envVars, markVars, auxVars, chunksAfterSkip >>
    /\ pc = "fetch"
    /\ media_files' = IF media_files = <<>> THEN playlist ELSE media_files
    /\ IF playlist = <<>>
         THEN pc' = "returned" /\ UNCHANGED idx
         ELSE pc' = "scan" /\ idx' = StartIndex(media_files', last_played)
    /\ UNCHANGED << last_played, played_ids, outcome, skip_event >>
    /\ UNCHANGED << storeVars, sinkVars, clipVars, fillerVars, chatVars, histVars >>
Fetch ==
    /\ UNCHANGED << envVars, markVars, auxVars, chunksAfterSkip >>
    /\ pc = "fetch"
    /\ media_files' = playlist
    /\ IF playlist = <<>>
         THEN pc' = "returned" /\ UNCHANGED idx
         ELSE pc' = "scan" /\ idx' = StartIndex(playlist, last_played)
    /\ UNCHANGED << last_played, played_ids, outcome, skip_event >>
    /\ UNCHANGED << storeVars, sinkVars, clipVars, fillerVars, chatVars, histVars >>

\* main.py:435, 495-496: end of the snapshot, start the next pass
WrapAround_keepsCursor ==
    /\ UNCHANGED << envVars, markVars, auxVars, chunksAfterSkip >>
    /\ pc = "scan"
    /\ idx > Len(media_files)
    /\ last_played' = last_played
    /\ pc' = "fetch"
    /\ firstPass' = FALSE
    /\ UNCHANGED << media_files, idx, played_ids, outcome, skip_event >>
    /\ UNCHANGED << storeVars, sinkVars, clipVars, fillerVars, chatVars >>
    /\ UNCHANGED << clipLog, started, quiet, skipInRelay, clipVoters, lastSkipBy,
                    sinks_started >>
WrapAround ==
    /\ UNCHANGED << envVars, markVars, auxVars, chunksAfterSkip >>
    /\ pc = "scan"
    /\ idx > Len(media_files)
    /\ last_played' = None
    /\ pc' = "fetch"
    /\ firstPass' = FALSE
    /\ UNCHANGED << media_files, idx, played_ids, outcome, skip_event >>
    /\ UNCHANGED << storeVars, sinkVars, clipVars, fillerVars, chatVars >>
    /\ UNCHANGED << clipLog, started, quiet, skipInRelay, clipVoters, lastSkipBy,
                    sinks_started >>

\* main.py:442-445: an id of played_ids is passed over
SkipPlayed_saves ==
    /\ UNCHANGED << envVars, markVars, auxVars, chunksAfterSkip >>
    /\ pc = "scan"
    /\ idx <= Len(media_files)
    /\ AlreadyPlayed(MediaId)
    /\ idx' = idx + 1
    /\ progress' = MediaId
    /\ UNCHANGED playlist
    /\ UNCHANGED << pc, last_played, media_files, played_ids, outcome, skip_event >>
    /\ UNCHANGED << sinkVars, clipVars, fillerVars, chatVars, histVars >>
SkipPlayed ==
    /\ UNCHANGED << envVars, markVars, auxVars, chunksAfterSkip >>
    /\ pc = "scan"
    /\ idx <= Len(media_files)
    /\ AlreadyPlayed(MediaId)
    /\ idx' = idx + 1
    /\ UNCHANGED << pc, last_played, media_files, played_ids, outcome, skip_event >>
    /\ UNCHANGED << storeVars, sinkVars, clipVars, fillerVars, chatVars, histVars >>

\* main.py:447-463, 85-96 and 291-325: mark the entry played, announce it
\* (send_message_to_chat catches every Exception of its connect and sends,
\* prints it and returns), spawn the transform process
StartClip_announceFatal ==
    /\ UNCHANGED << envVars, markVars, signals, hpc, reentered, irc, start_id >>
    /\ UNCHANGED << traced, chatter >>
    /\ announceErr' = (irc = "down")
    /\ collapsed' = FALSE
    /\ pc = "scan"
    /\ idx <= Len(media_files)
    /\ ~AlreadyPlayed(MediaId)
    /\ played_ids' = played_ids \cup {MediaId}
    /\ normalize_proc' = IF irc = "down" THEN normalize_proc
                           ELSE [st |-> "run", total |-> ClipLen, rc |-> 0]
    /\ nread' = 0
    /\ outcome' = "none"
    /\ pc' = IF irc = "down" THEN "returned" ELSE "relay"
    /\ started' = Append(started, <<idx, MediaId>>)
    /\ skipInRelay' = FALSE
    /\ chunksAfterSkip' = 0
    /\ clipVoters' = {}
    /\ UNCHANGED << last_played, media_files, idx, skip_event >>
    /\ UNCHANGED << storeVars, sinkVars, fillerVars, chatVars >>
    /\ clipLog' = <<>>
    /\ UNCHANGED << quiet, firstPass, lastSkipBy, sinks_started >>
StartClip_resetsVotes ==
    /\ UNCHANGED << envVars, markVars, signals, hpc, reentered, irc, start_id >>
    /\ UNCHANGED << traced, chatter >>
    /\ announceErr' = (irc = "down")
    /\ collapsed' = FALSE
    /\ pc = "scan"
    /\ idx <= Len(media_files)
    /\ ~AlreadyPlayed(MediaId)
    /\ played_ids' = played_ids \cup {MediaId}
    /\ normalize_proc' = [st |-> "run", total |-> ClipLen, rc |-> 0]
    /\ nread' = 0
    /\ outcome' = "none"
    /\ pc' = "relay"
    /\ started' = Append(started, <<idx, MediaId>>)
    /\ skipInRelay' = FALSE
    /\ chunksAfterSkip' = 0
    /\ clipVoters' = {}
    /\ skip_votes' = {}
    /\ UNCHANGED << last_played, media_files, idx, skip_event >>
    /\ UNCHANGED << storeVars, sinkVars, fillerVars, chat >>
    /\ clipLog' = <<>>
    /\ UNCHANGED << quiet, firstPass, lastSkipBy, sinks_started >>
StartClip ==
    /\ UNCHANGED << envVars, markVars, signals, hpc, reentered, irc, start_id >>
    /\ UNCHANGED << traced, chatter >>
    /\ announceErr' = (irc = "down")
    /\ collapsed' = FALSE
    /\ pc = "scan"
    /\ idx <= Len(media_files)
    /\ ~AlreadyPlayed(MediaId)
    /\ played_ids' = played_ids \cup {MediaId}
    /\ normalize_proc' = [st |-> "run", total |-> ClipLen, rc |-> 0]
    /\ nread' = 0
    /\ outcome' = "none"
    /\ pc' = "relay"
    /\ started' = Append(started, <<idx, MediaId>>)
    /\ skipInRelay' = FALSE
    /\ chunksAfterSkip' = 0
    /\ clipVoters' = {}
    /\ UNCHANGED << last_played, media_files, idx, skip_event >>
    /\ UNCHANGED << storeVars, sinkVars, fillerVars, chatVars >>
    /\ clipLog' = <<>>
    /\ UNCHANGED << quiet, firstPass, lastSkipBy, sinks_started >>

\* main.py:329-340: a chunk was read; it is written to the sink, or the relay
\* loop is left because the sink is gone
RelayChunk ==
    /\ UNCHANGED << envVars, auxVars >>
    /\ pc = "relay"
    /\ nread < normalize_proc.total
    /\ nread' = nread + 1
    /\ IF SinkWritable
         THEN /\ clipLog' = Append(clipLog, <<MediaId, nread + 1>>)
              /\ chunksAfterSkip' = chunksAfterSkip + (IF skipInRelay THEN 1 ELSE 0)
              /\ UNCHANGED << pc, outcome, skipInRelay, clipVoters, lastRelayed >>
         ELSE /\ pc' = "finally"
              /\ outcome' = "sinkfail"
              /\ chunksAfterSkip' = 0
              /\ lastRelayed' = MediaId
              /\ skipInRelay' = FALSE
              /\ clipVoters' = {}
              /\ UNCHANGED clipLog
    /\ UNCHANGED << last_played, media_files, idx, played_ids, skip_event >>
    /\ UNCHANGED << storeVars, sinkVars, normalize_proc, fillerVars, chatVars >>
    /\ UNCHANGED << started, quiet, firstPass, lastSkipBy, sinks_started, skipInTransition >>

\* main.py:341-357: the read returned nothing and the child has exited
RelayEnd_failStops ==
    /\ UNCHANGED << envVars, auxVars >>
    /\ pc = "relay"
    /\ nread = normalize_proc.total
    /\ normalize_proc.st = "exit"
    /\ pc' = IF normalize_proc.rc # 0 THEN "returned" ELSE "finally"
    /\ outcome' = "natural"
    /\ lastRelayed' = MediaId
    /\ UNCHANGED skipInTransition
    /\ skipInRelay' = FALSE
    /\ chunksAfterSkip' = 0
    /\ clipVoters' = {}
    /\ UNCHANGED << last_played, media_files, idx, played_ids, skip_event >>
    /\ UNCHANGED << storeVars, sinkVars, clipVars, fillerVars, chatVars >>
    /\ UNCHANGED << clipLog, started, quiet, firstPass, lastSkipBy, sinks_started >>
RelayEnd ==
    /\ UNCHANGED << envVars, auxVars >>
    /\ pc = "relay"
    /\ nread = normalize_proc.total
    /\ normalize_proc.st = "exit"
    /\ pc' = "finally"
    /\ outcome' = "natural"
    /\ lastRelayed' = MediaId
    /\ UNCHANGED skipInTransition
    /\ skipInRelay' = FALSE
    /\ chunksAfterSkip' = 0
    /\ clipVoters' = {}
    /\ UNCHANGED << last_played, media_files, idx, played_ids, skip_event >>
    /\ UNCHANGED << storeVars, sinkVars, clipVars, fillerVars, chatVars >>
    /\ UNCHANGED << clipLog, started, quiet, firstPass, lastSkipBy, sinks_started >>

\* main.py:358-373: the read returned nothing, the child is still alive and
\* skip_event is set: clear it, terminate the child, play the transition
RelaySkip_keepsTrigger ==
    /\ UNCHANGED << envVars, auxVars >>
    /\ pc = "relay"
    /\ nread = normalize_proc.total
    /\ normalize_proc.st = "eof"
    /\ skip_event
    /\ skip_event' = skip_event
    /\ normalize_proc' = [normalize_proc EXCEPT !.st = "exit", !.rc = 1]
    /\ outcome' = "skip"
    /\ lastRelayed' = MediaId
    /\ skipInTransition' = FALSE
    /\ pc' = "ptrans"
    /\ skipInRelay' = FALSE
    /\ chunksAfterSkip' = 0
    /\ clipVoters' = {}
    /\ UNCHANGED << last_played, media_files, idx, played_ids, nread >>
    /\ UNCHANGED << storeVars, sinkVars, fillerVars, chatVars >>
    /\ lastSkipBy' = "none"
    /\ UNCHANGED << clipLog, started, quiet, firstPass, sinks_started >>
RelaySkip ==
    /\ UNCHANGED << envVars, auxVars >>
    /\ pc = "relay"
    /\ nread = normalize_proc.total
    /\ normalize_proc.st = "eof"
    /\ skip_event
    /\ skip_event' = FALSE
    /\ normalize_proc' = [normalize_proc EXCEPT !.st = "exit", !.rc = 1]
    /\ outcome' = "skip"
    /\ lastRelayed' = MediaId
    /\ skipInTransition' = FALSE
    /\ pc' = "ptrans"
    /\ skipInRelay' = FALSE
    /\ chunksAfterSkip' = 0
    /\ clipVoters' = {}
    /\ UNCHANGED << last_played, media_files, idx, played_ids, nread >>
    /\ UNCHANGED << storeVars, sinkVars, fillerVars, chatVars >>
    /\ lastSkipBy' = "none"
    /\ UNCHANGED << clipLog, started, quiet, firstPass, sinks_started >>

\* main.py:381-395: wait for the child without a timeout, flush, then play
\* the transition (after a skip the transition was played before)
Finally_noWait ==
    /\ UNCHANGED << envVars, markVars, auxVars, chunksAfterSkip >>
    /\ pc = "finally"
    /\ pc' = IF outcome = "skip" THEN "save" ELSE "ptrans"
    /\ UNCHANGED << last_played, media_files, idx, played_ids, outcome, skip_event >>
    /\ UNCHANGED << storeVars, sinkVars, clipVars, fillerVars, chatVars, histVars >>
Finally_transitionAgain ==
    /\ UNCHANGED << envVars, markVars, auxVars, chunksAfterSkip >>
    /\ pc = "finally"
    /\ normalize_proc.st = "exit"
    /\ pc' = "ptrans"
    /\ outcome' = IF outcome = "skip" THEN "natural" ELSE outcome
    /\ UNCHANGED << last_played, media_files, idx, played_ids, skip_event >>
    /\ UNCHANGED << storeVars, sinkVars, clipVars, fillerVars, chatVars, histVars >>
Finally ==
    /\ UNCHANGED << envVars, markVars, auxVars, chunksAfterSkip >>
    /\ pc = "finally"
    /\ normalize_proc.st = "exit"
    /\ pc' = IF outcome = "skip" THEN "save" ELSE "ptrans"
    /\ UNCHANGED << last_played, media_files, idx, played_ids, outcome, skip_event >>
    /\ UNCHANGED << storeVars, sinkVars, clipVars, fillerVars, chatVars, histVars >>

\* main.py:100-125: play_transition returns at once without a running sink,
\* or spawns the filler process
PlayTransition ==
    /\ UNCHANGED << envVars, markVars, auxVars, chunksAfterSkip >>
    /\ pc = "ptrans"
    /\ IF TransitionSkipped
         THEN /\ pc' = IF outcome = "skip" THEN "finally" ELSE "save"
              /\ UNCHANGED fillerVars
         ELSE /\ transition_proc' = [st |-> "run", total |-> FillerLen, rc |-> 0]
              /\ tread' = 0
              /\ pc' = "trelay"
    /\ UNCHANGED << last_played, media_files, idx, played_ids, outcome, skip_event >>
    /\ UNCHANGED << storeVars, sinkVars, clipVars, chatVars, histVars >>

\* main.py:128-143: a filler chunk was read; written, or the loop is left
TransitionChunk_cancellable ==
    /\ UNCHANGED << envVars, markVars, auxVars, chunksAfterSkip >>
    /\ pc = "trelay"
    /\ tread < transition_proc.total
    /\ tread' = tread + 1
    /\ IF skip_event
         THEN pc' = "tfinally" /\ skip_event' = FALSE /\ UNCHANGED clipLog
         ELSE /\ UNCHANGED skip_event
              /\ IF SinkWritable
                   THEN clipLog' = Append(clipLog, <<Filler, tread + 1>>) /\ UNCHANGED pc
                   ELSE pc' = "tfinally" /\ UNCHANGED clipLog
    /\ UNCHANGED << last_played, media_files, idx, played_ids, outcome >>
    /\ UNCHANGED << storeVars, sinkVars, clipVars, transition_proc, chatVars >>
    /\ UNCHANGED << started, quiet, firstPass, skipInRelay, clipVoters, lastSkipBy,
                    sinks_started >>
TransitionChunk ==
    /\ UNCHANGED << envVars, markVars, auxVars, chunksAfterSkip >>
    /\ pc = "trelay"
    /\ tread < transition_proc.total
    /\ tread' = tread + 1
    /\ IF SinkWritable
         THEN clipLog' = Append(clipLog, <<Filler, tread + 1>>) /\ UNCHANGED pc
         ELSE pc' = "tfinally" /\ UNCHANGED clipLog
    /\ UNCHANGED << last_played, media_files, idx, played_ids, outcome, skip_event >>
    /\ UNCHANGED << storeVars, sinkVars, clipVars, transition_proc, chatVars >>
    /\ UNCHANGED << started, quiet, firstPass, skipInRelay, clipVoters, lastSkipBy,
                    sinks_started >>

\* main.py:130-132: end of the filler's output
TransitionEnd ==
    /\ UNCHANGED << envVars, markVars, auxVars, chunksAfterSkip >>
    /\ pc = "trelay"
    /\ tread = transition_proc.total
    /\ transition_proc.st \in {"eof", "exit"}
    /\ pc' = "tfinally"
    /\ UNCHANGED << last_played, media_files, idx, played_ids, outcome, skip_event >>
    /\ UNCHANGED << storeVars, sinkVars, clipVars, fillerVars, chatVars, histVars >>

\* main.py:145-156: wait for the filler process without a timeout, flush
TransitionFinally ==
    /\ UNCHANGED << envVars, markVars, auxVars, chunksAfterSkip >>
    /\ pc = "tfinally"
    /\ transition_proc.st = "exit"
    /\ transition_proc' = NoProc
    /\ tread' = 0
    /\ pc' = IF outcome = "skip" THEN "finally" ELSE "save"
    /\ UNCHANGED << last_played, media_files, idx, played_ids, outcome, skip_event >>
    /\ UNCHANGED << storeVars, sinkVars, clipVars, chatVars, histVars >>

\* main.py:465-466 and 167-172: save_progress(media_id)
SaveProgress_skipped ==
    /\ UNCHANGED << envVars, markVars, auxVars, chunksAfterSkip >>
    /\ pc = "save"
    /\ pc' = "age"
    /\ UNCHANGED << progress, playlist >>
    /\ UNCHANGED << last_played, media_files, idx, played_ids, outcome, skip_event >>
    /\ UNCHANGED << sinkVars, clipVars, fillerVars, chatVars, histVars >>
SaveProgress ==
    /\ UNCHANGED << envVars, markVars, auxVars, chunksAfterSkip >>
    /\ pc = "save"
    /\ progress' = MediaId
    /\ pc' = "age"
    /\ UNCHANGED playlist
    /\ UNCHANGED << last_played, media_files, idx, played_ids, outcome, skip_event >>
    /\ UNCHANGED << sinkVars, clipVars, fillerVars, chatVars, histVars >>

\* main.py:468-493: restart the sink when it is too old, then idx += 1
AgeCheck_midRelay ==
    /\ UNCHANGED << envVars, markVars, auxVars, chunksAfterSkip >>
    /\ pc \in {"age", "relay"}
    /\ IF age > max_stream_duration
         THEN /\ leaked' = leaked + (IF StopSink(stream_proc) = "alive" THEN 1 ELSE 0)
              /\ stream_proc' = "alive"
              /\ age' = 0
              /\ sinks_started' = sinks_started + 1
         ELSE UNCHANGED << sinkVars, sinks_started >>
    /\ idx' = IF pc = "age" THEN NextIdx(idx) ELSE idx
    /\ pc' = IF pc = "age" THEN "scan" ELSE pc
    /\ UNCHANGED << last_played, media_files, played_ids, outcome, skip_event >>
    /\ UNCHANGED << storeVars, clipVars, fillerVars, chatVars >>
    /\ UNCHANGED << clipLog, started, quiet, firstPass, skipInRelay, clipVoters,
                    lastSkipBy >>
AgeCheck ==
    /\ UNCHANGED << envVars, markVars, auxVars, chunksAfterSkip >>
    /\ pc = "age"
    /\ IF age > max_stream_duration
         THEN /\ leaked' = leaked + (IF StopSink(stream_proc) = "alive" THEN 1 ELSE 0)
              /\ stream_proc' = "alive"
              /\ age' = 0
              /\ sinks_started' = sinks_started + 1
         ELSE UNCHANGED << sinkVars, sinks_started >>
    /\ idx' = NextIdx(idx)
    /\ pc' = "scan"
    /\ UNCHANGED << last_played, media_files, played_ids, outcome, skip_event >>
    /\ UNCHANGED << storeVars, clipVars, fillerVars, chatVars >>
    /\ UNCHANGED << clipLog, started, quiet, firstPass, skipInRelay, clipVoters,
                    lastSkipBy >>

(* --------------------------- child processes ---------------------------- *)
\* a child closes its output once everything still unread fits the pipe
CanClose(p, n) == p.st = "run" /\ p.total - n <= PipeCap
\* a crash leaves only what the pipe already holds
Crashed(p, n, t) == [st |-> "exit", total |-> t, rc |-> 1]

\* the transform process (ffmpeg, main.py:324) closes its output, then exits
ChildStep ==
    /\ UNCHANGED << envVars, markVars, auxVars, chunksAfterSkip >>
    /\ \/ /\ CanClose(normalize_proc, nread)
          /\ normalize_proc' = [normalize_proc EXCEPT !.st = "eof"]
       \/ /\ normalize_proc.st = "eof"
          /\ normalize_proc' = [normalize_proc EXCEPT !.st = "exit"]
    /\ UNCHANGED << loopVars, storeVars, sinkVars, nread, fillerVars, chatVars,
                    skip_event, histVars >>

\* the transform process fails: nonzero exit after any part of its output
ChildCrash ==
    /\ UNCHANGED << markVars, auxVars, chunksAfterSkip >>
    /\ normalize_proc.st = "run"
    /\ crashes < MaxCrashes
    /\ crashes' = crashes + 1
    /\ \E t \in nread..Min(normalize_proc.total, nread + PipeCap) :
          normalize_proc' = Crashed(normalize_proc, nread, t)
    /\ quiet' = FALSE
    /\ UNCHANGED << loopVars, storeVars, sinkVars, nread, fillerVars, chatVars,
                    skip_event >>
    /\ UNCHANGED << clipLog, started, firstPass, skipInRelay, clipVoters, lastSkipBy,
                    sinks_started >>

\* the filler process (ffmpeg, main.py:125) closes its output, then exits
FillerStep ==
    /\ UNCHANGED << envVars, markVars, auxVars, chunksAfterSkip >>
    /\ \/ /\ CanClose(transition_proc, tread)
          /\ transition_proc' = [transition_proc EXCEPT !.st = "eof"]
       \/ /\ transition_proc.st = "eof"
          /\ transition_proc' = [transition_proc EXCEPT !.st = "exit"]
    /\ UNCHANGED << loopVars, storeVars, sinkVars, clipVars, tread, chatVars,
                    skip_event, histVars >>

\* the filler process fails
FillerCrash ==
    /\ UNCHANGED << markVars, auxVars, chunksAfterSkip >>
    /\ transition_proc.st = "run"
    /\ crashes < MaxCrashes
    /\ crashes' = crashes + 1
    /\ \E t \in tread..Min(transition_proc.total, tread + PipeCap) :
          transition_proc' = Crashed(transition_proc, tread, t)
    /\ quiet' = FALSE
    /\ UNCHANGED << loopVars, storeVars, sinkVars, clipVars, tread, chatVars,
                    skip_event >>
    /\ UNCHANGED << clipLog, started, firstPass, skipInRelay, clipVoters, lastSkipBy,
                    sinks_started >>

\* the sink process exits on its own (network error, remote close)
SinkDies ==
    /\ UNCHANGED << envVars, markVars, auxVars, chunksAfterSkip >>
    /\ stream_proc = "alive"
    /\ stream_proc' = "dead"
    /\ quiet' = FALSE
    /\ UNCHANGED << loopVars, storeVars, leaked, age, clipVars,
                    fillerVars, chatVars, skip_event >>
    /\ UNCHANGED << clipLog, started, firstPass, skipInRelay, clipVoters, lastSkipBy,
                    sinks_started >>

\* time passes; past the ceiling the comparison of main.py:469 no longer changes
Tick ==
    /\ UNCHANGED << envVars, markVars, auxVars, chunksAfterSkip >>
    /\ stream_proc # "none"
    /\ age <= max_stream_duration
    /\ age' = age + 1
    /\ UNCHANGED << loopVars, storeVars, stream_proc, leaked, clipVars, fillerVars,
                    chatVars, skip_event, histVars >>

(* ---------------------------- chat listener ----------------------------- *)
\* main.py:256-284: one PRIVMSG line from user u with text t
OnMessage(u, t) ==
    /\ UNCHANGED << envVars, signals, hpc, reentered, irc, start_id, traced >>
    /\ UNCHANGED << announceErr, chunksAfterSkip >>
    /\ chat = "listening"
    /\ LET cmd == IsSkipCommand(t)
           instant == cmd /\ IsInstantSkipUser(u)
           votes == IF cmd /\ ~instant THEN skip_votes \cup {Lower(u)} ELSE skip_votes
           reached == cmd /\ ~instant /\ Cardinality(votes) >= skip_threshold
       IN  /\ skip_event' = (skip_event \/ instant \/ reached)
           /\ skip_votes' = IF reached THEN {} ELSE votes
           /\ clipVoters' = IF cmd /\ ~instant /\ pc = "relay"
                              THEN clipVoters \cup {Lower(u)}
                              ELSE clipVoters
           /\ lastSkipBy' = IF instant THEN "instant"
                             ELSE IF reached THEN "votes" ELSE lastSkipBy
           /\ quiet' = (quiet /\ ~(instant \/ reached))
           /\ chatter' = (chatter \/ (traced /\ ~cmd))
           /\ collapsed' = (collapsed \/
                              (traced /\ skip_event /\ (instant \/ reached)))
           /\ skipInTransition' = IF instant \/ reached
                                      THEN pc \in {"ptrans", "trelay", "tfinally"}
                                      ELSE skipInTransition
           /\ skipInRelay' = (skipInRelay \/
                                ((instant \/ reached) /\ pc = "relay"
                                   /\ nread < normalize_proc.total))
    /\ UNCHANGED << loopVars, storeVars, sinkVars, clipVars, fillerVars, chat >>
    /\ UNCHANGED << clipLog, started, firstPass, sinks_started, lastRelayed >>

ChatMessage == \E u \in Users, t \in Texts : OnMessage(u, t)

\* main.py:243-247 and 285-287: recv returns nothing and the thread leaves
\* monitor_chat, or recv raises and the loop goes on with the broken socket;
\* either way no line is handled any more and nothing connects again
ChatDisconnect ==
    /\ UNCHANGED << envVars, markVars, auxVars, chunksAfterSkip >>
    /\ chat = "listening"
    /\ chat' = "closed"
    /\ UNCHANGED << loopVars, storeVars, sinkVars, clipVars, fillerVars >>
    /\ UNCHANGED << skip_event, skip_votes, histVars >>

\* the skip command of an allow-listed user
ModSkip == \E u \in { Mod, mod } : OnMessage(u, SkipKeyword)

(* ------------------------------ chat server ----------------------------- *)
\* main.py:87-88: the connect of send_message_to_chat starts to fail (no
\* route, name not resolved, connection refused or reset)
IrcDown ==
    /\ UNCHANGED << envVars, markVars, chunksAfterSkip >>
    /\ irc = "up"
    /\ irc' = "down"
    /\ UNCHANGED << signals, hpc, reentered, start_id, traced >>
    /\ UNCHANGED << collapsed, chatter, announceErr >>
    /\ UNCHANGED << loopVars, storeVars, sinkVars, clipVars, fillerVars, chatVars >>
    /\ UNCHANGED << skip_event, histVars >>

\* the chat server can be reached again
IrcUp ==
    /\ UNCHANGED << envVars, markVars, chunksAfterSkip >>
    /\ irc = "down"
    /\ irc' = "up"
    /\ UNCHANGED << signals, hpc, reentered, start_id, traced >>
    /\ UNCHANGED << collapsed, chatter, announceErr >>
    /\ UNCHANGED << loopVars, storeVars, sinkVars, clipVars, fillerVars, chatVars >>
    /\ UNCHANGED << skip_event, histVars >>

(* --------------------------- playlist source ---------------------------- *)
\* playlist_generator.py:281-297 writes playlist.json again with one more
\* entry at its end while the program runs; videoNumbers count from 1
\* (ytdlp_prerun.py:126), so the new entry has the next number
PlaylistAppend ==
    /\ UNCHANGED << envVars, markVars, auxVars, chunksAfterSkip >>
    /\ Len(playlist) < MaxPlaylist
    /\ playlist' = Append(playlist, Len(playlist) + 1)
    /\ UNCHANGED progress
    /\ UNCHANGED << loopVars, sinkVars, clipVars, fillerVars, chatVars >>
    /\ UNCHANGED << skip_event, histVars >>

(* ------------------------------ shutdown -------------------------------- *)
\* main.py:190-217 graceful_shutdown, run by the main thread wherever it is on
\* SIGINT or SIGTERM: terminate (wait 5 s, kill) normalize_proc if it is alive,
\* close the input of stream_proc and terminate (wait 5 s, kill) it if it is
\* alive, then sys.exit(0).  transition_proc is a local of play_transition and
\* is not touched.  SystemExit unwinds the main thread: raised in the read
\* loop of play_transition it runs the finally of main.py:145-146, which waits
\* for the filler; raised anywhere else, the wait of main.py:146 included, it
\* meets no wait (normalize_proc has exited by then) and the process exits.
\* The chat thread is a daemon (main.py:520) and ends with the process.
Shutdown ==
    /\ UNCHANGED << envVars, markVars, chunksAfterSkip >>
    /\ signals' = signals + 1
    /\ UNCHANGED << hpc, reentered, irc, start_id, traced >>
    /\ UNCHANGED << collapsed, chatter, announceErr >>
    /\ pc \notin {"returned", "exited"}
    /\ normalize_proc' = IF normalize_proc.st \in {"run", "eof"}
                           THEN [normalize_proc EXCEPT !.st = "exit", !.rc = 1]
                           ELSE normalize_proc
    /\ stream_proc' = StopSink(stream_proc)
    /\ chat' = "off"
    /\ pc' = IF pc = "trelay" THEN "xwait" ELSE "exited"
    /\ UNCHANGED << last_played, media_files, idx, played_ids, outcome, skip_event >>
    /\ UNCHANGED << storeVars, leaked, age, nread, fillerVars, skip_votes, histVars >>

\* main.py:145-156 reached by SystemExit: transition_proc.wait() returned
ExitWait ==
    /\ UNCHANGED << envVars, markVars, auxVars, chunksAfterSkip >>
    /\ pc = "xwait"
    /\ transition_proc.st = "exit"
    /\ pc' = "exited"
    /\ UNCHANGED << last_played, media_files, idx, played_ids, outcome, skip_event >>
    /\ UNCHANGED << storeVars, sinkVars, clipVars, fillerVars, chatVars, histVars >>

(* ----------------- shutdown, one step of the handler at a time ----------- *)
\* Python runs graceful_shutdown in the main thread, between two of its
\* instructions or inside a blocking call; a signal that arrives while the
\* handler runs starts the handler again on top of it.  sys.exit(0) of the
\* inner run raises SystemExit through every handler frame below (none
\* catches it: main.py:198, 207 and 212 catch TimeoutExpired and Exception),
\* so an interrupted run never goes on and hpc is the position of the
\* innermost run.

\* SIGINT or SIGTERM is delivered (handlers registered at main.py:221-222)
Signal ==
    /\ UNCHANGED << envVars, markVars, chunksAfterSkip, irc, start_id, traced >>
    /\ UNCHANGED << collapsed, chatter, announceErr >>
    /\ pc \notin {"returned", "exited", "died"}
    /\ signals < MaxSignals
    /\ signals' = signals + 1
    /\ reentered' = (reentered \/ hpc # "none")
    /\ hpc' = "norm"
    /\ UNCHANGED << loopVars, storeVars, sinkVars, clipVars, fillerVars, chatVars >>
    /\ UNCHANGED << skip_event, histVars >>

\* main.py:194-195: normalize_proc.terminate() if poll() is None
HNormalize_unguarded ==
    /\ UNCHANGED << envVars, markVars, chunksAfterSkip, irc, start_id, traced >>
    /\ UNCHANGED << collapsed, chatter, announceErr >>
    /\ hpc = "norm"
    /\ hpc' = "nwait"
    /\ UNCHANGED << signals, reentered >>
    /\ UNCHANGED << loopVars, storeVars, sinkVars, clipVars, fillerVars, chatVars >>
    /\ UNCHANGED << skip_event, histVars >>
HNormalize ==
    /\ UNCHANGED << envVars, markVars, chunksAfterSkip, irc, start_id, traced >>
    /\ UNCHANGED << collapsed, chatter, announceErr >>
    /\ hpc = "norm"
    /\ hpc' = IF normalize_proc.st \in {"run", "eof"} THEN "nwait" ELSE "sink"
    /\ UNCHANGED << signals, reentered >>
    /\ UNCHANGED << loopVars, storeVars, sinkVars, clipVars, fillerVars, chatVars >>
    /\ UNCHANGED << skip_event, histVars >>

\* main.py:196-201: wait(timeout=5), then kill and wait: the child has exited
HNormalizeWait ==
    /\ UNCHANGED << envVars, markVars, chunksAfterSkip, irc, start_id, traced >>
    /\ UNCHANGED << collapsed, chatter, announceErr >>
    /\ hpc = "nwait"
    /\ normalize_proc' = IF normalize_proc.st \in {"run", "eof"}
                           THEN [normalize_proc EXCEPT !.st = "exit", !.rc = 1]
                           ELSE normalize_proc
    /\ hpc' = "sink"
    /\ UNCHANGED << signals, reentered, nread >>
    /\ UNCHANGED << loopVars, storeVars, sinkVars, fillerVars, chatVars >>
    /\ UNCHANGED << skip_event, histVars >>

\* main.py:203-209: close the input of stream_proc and terminate it if
\* poll() is None
HSink ==
    /\ UNCHANGED << envVars, markVars, chunksAfterSkip, irc, start_id, traced >>
    /\ UNCHANGED << collapsed, chatter, announceErr >>
    /\ hpc = "sink"
    /\ hpc' = IF stream_proc = "alive" THEN "swait" ELSE "exit"
    /\ UNCHANGED << signals, reentered >>
    /\ UNCHANGED << loopVars, storeVars, sinkVars, clipVars, fillerVars, chatVars >>
    /\ UNCHANGED << skip_event, histVars >>

\* main.py:210-215: wait(timeout=5), then kill and wait: the sink has exited
HSinkWait ==
    /\ UNCHANGED << envVars, markVars, chunksAfterSkip, irc, start_id, traced >>
    /\ UNCHANGED << collapsed, chatter, announceErr >>
    /\ hpc = "swait"
    /\ stream_proc' = StopSink(stream_proc)
    /\ hpc' = "exit"
    /\ UNCHANGED << signals, reentered, leaked, age >>
    /\ UNCHANGED << loopVars, storeVars, clipVars, fillerVars, chatVars >>
    /\ UNCHANGED << skip_event, histVars >>

\* main.py:217 sys.exit(0): SystemExit unwinds the handler frames and the main
\* thread (see Shutdown for the finally blocks it meets)
HExit ==
    /\ UNCHANGED << envVars, markVars, chunksAfterSkip, irc, start_id, traced >>
    /\ UNCHANGED << collapsed, chatter, announceErr >>
    /\ hpc = "exit"
    /\ hpc' = "none"
    /\ pc' = IF pc = "trelay" THEN "xwait" ELSE "exited"
    /\ chat' = "off"
    /\ UNCHANGED << signals, reentered >>
    /\ UNCHANGED << last_played, media_files, idx, played_ids, outcome, skip_event >>
    /\ UNCHANGED << storeVars, sinkVars, clipVars, fillerVars, skip_votes, histVars >>

Handler ==
    \/ HNormalize
    \/ HNormalizeWait
    \/ HSink
    \/ HSinkWait
    \/ HExit

(* --------------------------- specifications ----------------------------- *)
Loop ==
    \/ Main
    \/ Fetch
    \/ WrapAround
    \/ SkipPlayed
    \/ StartClip
    \/ RelayChunk
    \/ RelayEnd
    \/ RelaySkip
    \/ Finally
    \/ PlayTransition
    \/ TransitionChunk
    \/ TransitionEnd
    \/ TransitionFinally
    \/ SaveProgress
    \/ AgeCheck
    \/ ChildStep
    \/ FillerStep

Faults ==
    \/ ChildCrash
    \/ FillerCrash
    \/ SinkDies
    \/ Tick

Halt ==
    \/ Shutdown
    \/ ExitWait

\* everything
Next ==
    \/ Loop
    \/ Faults
    \/ ChatMessage
    \/ ChatDisconnect
    \/ PlaylistAppend
    \/ IrcDown
    \/ IrcUp
    \/ Halt
    \/ Signal
    \/ Handler
Spec == Init /\ [][Next]_vars

\* the playback loop under every fault, skipped by the allow-listed users only
NextFaults == Loop \/ Faults \/ ModSkip
SpecFaults == Init /\ [][NextFaults]_vars

\* the playback loop and the chat listener with every user, without faults
NextChat == Loop \/ ChatMessage
SpecChat == InitChat /\ [][NextChat]_vars

\* the same, recording the messages that are no command and the settings of
\* a trigger that is set
SpecChatTraced == InitTraced /\ [][NextChat]_vars

\* the playback loop under every fault, with the main thread, the child
\* processes and the clock going on whenever they can
SpecLive == Init /\ [][NextFaults]_vars /\ WF_vars(Loop) /\ WF_vars(Tick)

\* the playback loop under every fault and the termination signals
NextShutdown == Loop \/ Faults \/ ModSkip \/ Halt
SpecShutdown == Init /\ [][NextShutdown]_vars

\* the playback loop under the termination signals, the handler taken one
\* step at a time: the main thread goes on only while no handler runs, the
\* child processes always; the handler and the children go on whenever
\* they can
NextSignal ==
    \/ hpc = "none" /\ (Loop \/ ExitWait)
    \/ hpc # "none" /\ (ChildStep \/ FillerStep)
    \/ SinkDies
    \/ Signal
    \/ Handler
SpecSignal ==
    InitChat /\ [][NextSignal]_vars /\ WF_vars(Handler) /\ WF_vars(FillerStep)
             /\ WF_vars(ExitWait)

\* the playback loop, skipped by the allow-listed users, with a chat server
\* that comes and goes, the main thread and the child processes going on
\* whenever they can
NextAnnounce == Loop \/ ModSkip \/ IrcDown \/ IrcUp
SpecAnnounce == InitChat /\ [][NextAnnounce]_vars /\ WF_vars(Loop)

\* the playback loop and the chat listener on a transport that can drop,
\* with the main thread and the child processes going on whenever they can
NextChatDrop == Loop \/ ChatMessage \/ ChatDisconnect
SpecChatDrop == InitChat /\ [][NextChatDrop]_vars /\ WF_vars(Loop)

\* the playback loop, skipped by the allow-listed users, over a playlist
\* file that grows, with the main thread and the child processes going on
\* whenever they can
NextGrow == Loop \/ ModSkip \/ PlaylistAppend
SpecGrow == InitChat /\ [][NextGrow]_vars /\ WF_vars(Loop)

\* the playback loop, skipped by the allow-listed users, over a playlist
\* file that grows, started with every stored cursor and --video_number
SpecResume == InitResume /\ [][NextGrow]_vars

\* the playback loop, skipped by the allow-listed users, started with every
\* kind of progress.json
NextLoad == Loop \/ ModSkip
SpecLoad == InitLoad /\ [][NextLoad]_vars

\* the playback loop under every fault over playlists with a repeated id
SpecDup == InitDup /\ [][NextFaults]_vars

(* ------------------------------ properties ------------------------------ *)
Distinct(s) == \A i, j \in 1..Len(s) : i # j => s[i] # s[j]
IsPrefix(a, b) == Len(a) <= Len(b) /\ SubSeq(b, 1, Len(a)) = a
ClipSegs(id) == [k \in 1..ClipLen |-> <<id, k>>]
FillerSegs == [k \in 1..FillerLen |-> <<Filler, k>>]
LastStarted == started[Len(started)]
\* the playback loop is between the start of an entry and its save_progress
InClip == pc \in {"relay", "finally", "ptrans", "trelay", "tfinally", "save"}
\* the playback loop is past the relay and the transition of the entry
AfterClip == pc \in {"save", "age", "scan"}
AllowListed(u) == \E x \in Instant_Skip_Users : Lower(x) = Lower(u)
FirstOccurrence(files, x) ==
    CHOOSE i \in 1..Len(files) : files[i] = x /\ \A j \in 1..(i - 1) : files[j] # x
\* the index the claim resumes at: right after the first x, or the first entry
ResumeIndex(files, x) ==
    IF x \in Range(files) THEN FirstOccurrence(files, x) + 1 ELSE 1
\* the transform process of the current entry ended with a failure exit
TransformFailed ==
    normalize_proc.st = "exit" /\ normalize_proc.rc # 0 /\ outcome \notin {"none", "skip"}
AliveSinks == leaked + (IF stream_proc = "alive" THEN 1 ELSE 0)

\* C1: in the first pass of an undisturbed run without a cursor over distinct
\* ids, the entries are started in playlist order, none passed over, and what
\* each entry writes to the sink is its chunks 1..ClipLen in order followed by
\* one filler, complete once the entry is done.
ThmC1 ==
    (firstPass /\ quiet /\ last_played = None /\ pc # "main" /\ Distinct(media_files)) =>
        /\ \A i \in 1..Len(started) : started[i] = <<i, media_files[i]>>
        /\ pc = "scan" => Len(started) = idx - 1
        /\ started # <<>> =>
              /\ IsPrefix(clipLog, ClipSegs(LastStarted[2]) \o FillerSegs)
              /\ AfterClip => clipLog = ClipSegs(LastStarted[2]) \o FillerSegs
WitC1 ==
    /\ firstPass /\ quiet /\ last_played = None
    /\ media_files = <<1, 2, 3>> /\ pc = "scan" /\ idx = 4
    /\ started = << <<1, 1>>, <<2, 2>>, <<3, 3>> >>
    /\ clipLog = ClipSegs(3) \o FillerSegs

\* C2: at the start of every pass after the first the set of played ids is
\* empty, so that every entry of the re-fetched playlist is played again.
ClaimC2 == (~firstPass /\ pc = "scan" /\ idx = 1) => played_ids = {}

\* C3: once the skip trigger has fired during an entry's relay with chunks
\* still unwritten, no further chunk of that entry is written to the sink.
ClaimC3 == [][skipInRelay => clipLog' = clipLog]_vars

\* C4: the votes reach the threshold during a relay only when skip_threshold
\* distinct normalized ids have voted during that relay.
ClaimC4 ==
    [][(pc = "relay" /\ skip_votes # {} /\ skip_votes' = {})
          => Cardinality(clipVoters') >= skip_threshold]_vars

\* C5: a skip command of an allow-listed user (case-insensitively) sets the
\* skip trigger whatever the vote set holds and leaves the vote set unchanged.
ThmC5 ==
    [][\A u \in Users, t \in Texts :
          (AllowListed(u) /\ Lower(Strip(t)) = SkipKeyword /\ OnMessage(u, t))
             => (skip_event' /\ skip_votes' = skip_votes)]_vars
WitC5 == lastSkipBy = "instant" /\ skip_event /\ Cardinality(skip_votes) = 2

\* C6: started with cursor x, the loop is positioned right after the first
\* occurrence of x in the snapshot (at the first entry when x is absent), the
\* first entry it plays is that one, and a missing x does not end the loop.
ThmC6 ==
    /\ (firstPass /\ last_played # None /\ pc \notin {"main", "fetch"}) =>
          /\ (pc = "scan" /\ started = <<>>) => idx = ResumeIndex(media_files, last_played)
          /\ started # <<>> =>
                LET i == ResumeIndex(media_files, last_played)
                IN  started[1] = <<i, media_files[i]>>
    /\ playlist # <<>> => pc # "returned"
WitC6 ==
    /\ firstPass /\ last_played = 2 /\ media_files = <<1, 2, 3>>
    /\ started = << <<3, 3>> >>

\* C7: whenever an entry is no longer current the Progress Store holds its id,
\* and while an entry is current the store holds the id of the entry before.
ThmC7 ==
    started # <<>> =>
        IF InClip
          THEN Len(started) >= 2 => progress = started[Len(started) - 1][2]
          ELSE progress = LastStarted[2]
WitC7 ==
    /\ firstPass /\ media_files = <<1, 2, 3>> /\ pc = "scan" /\ idx = 4
    /\ Len(started) = 3 /\ outcome = "skip" /\ progress = 3

\* C8: after a sink write failure in the relay of an entry, the cursor is not
\* saved and the loop does not move on before that entry is started again.
ClaimC8 == [][outcome = "sinkfail" => (progress' = progress /\ idx' = idx)]_vars

\* C9: no id is attempted more than once, and an entry whose transform process
\* failed is left behind: the loop goes on to save, age check and the next
\* index, never back to the same entry.
ThmC9 ==
    [][/\ Distinct([i \in 1..Len(started') |-> started'[i][2]])
       /\ TransformFailed =>
             /\ InClip => (idx' = idx /\ (InClip' \/ pc' = "age"))
             /\ (pc = "age" /\ pc' # pc) => (pc' = "scan" /\ idx' = idx + 1)]_vars
WitC9 ==
    /\ TransformFailed /\ pc = "scan"
    /\ idx = LastStarted[1] + 1 /\ idx <= Len(media_files)

\* C10: at most one sink process is alive.
ThmC10 == AliveSinks <= 1
WitC10 == sinks_started >= 2 /\ quiet /\ stream_proc = "alive"

\* C11: a sink process that has died while the playback loop is running (the
\* playlist is not empty, so the loop never returns) is eventually replaced by
\* a live one.
ClaimC11 == (stream_proc = "dead" /\ playlist # <<>>) ~> (stream_proc = "alive")

\* a child process that has not exited yet
Alive(p) == p.st \in {"run", "eof"}

\* C12: a sink is replaced (every start after the first) only by the age check
\* that follows an entry: the relay of the last entry started has ended, no
\* transform or filler process is alive, and the loop goes on to the next
\* entry with the new sink.
ThmC12 ==
    [][(sinks_started >= 1 /\ sinks_started' # sinks_started) =>
          /\ pc = "age" /\ pc' = "scan"
          /\ age > max_stream_duration
          /\ ~Alive(normalize_proc) /\ ~Alive(transition_proc)
          /\ started # <<>> /\ lastRelayed = LastStarted[2]
          /\ stream_proc' = "alive" /\ age' = 0]_vars
WitC12 ==
    /\ sinks_started >= 2 /\ pc = "scan" /\ age = 0
    /\ stream_proc = "alive" /\ started # <<>> /\ lastRelayed = LastStarted[2]

\* C13: no entry's relay begins while the age of the sink exceeds the ceiling.
ClaimC13 == [][Len(started') > Len(started) => age' <= max_stream_duration]_vars

\* C14: at the step that starts an entry the vote set is empty and the skip
\* trigger is unset.
ClaimC14 == [][Len(started') > Len(started) => (skip_votes' = {} /\ ~skip_event')]_vars

\* the playback loop is inside play_transition
InTransition == pc \in {"ptrans", "trelay", "tfinally"}
\* the last FillerLen segments written are one whole filler
EndsWithFiller ==
    /\ Len(clipLog) >= FillerLen
    /\ SubSeq(clipLog, Len(clipLog) - FillerLen + 1, Len(clipLog)) = FillerSegs

\* C15: no step taken while play_transition runs clears the skip trigger; the
\* trigger is cleared only by the skip branch of a clip's relay; the read loop
\* of play_transition is left after the whole filler was written, trigger or
\* not; and a trigger set during a transition is still set at the step that
\* starts the next entry.
ThmC15 ==
    [][/\ (InTransition /\ skip_event) => skip_event'
       /\ (skip_event /\ ~skip_event') => (pc = "relay" /\ pc' = "ptrans")
       /\ (pc = "trelay" /\ pc' = "tfinally") => EndsWithFiller
       /\ (skipInTransition /\ Len(started') > Len(started)) => skip_event']_vars
WitC15 ==
    /\ pc = "relay" /\ nread = 0 /\ Len(started) = 2
    /\ skipInTransition /\ skip_event

\* C16: the step that leaves the entry of play_transition with the sink absent
\* or exited spawns no filler process, writes nothing to the sink, starts no
\* sink and goes straight on to what follows the transition.
ThmC16 ==
    [][(pc = "ptrans" /\ pc' # "ptrans" /\ stream_proc \in {"none", "dead"}) =>
          /\ transition_proc' = transition_proc /\ ~Alive(transition_proc')
          /\ clipLog' = clipLog
          /\ stream_proc' = stream_proc /\ sinks_started' = sinks_started
          /\ pc' \in {"save", "finally"}]_vars
WitC16 ==
    /\ pc = "save" /\ outcome = "sinkfail" /\ stream_proc = "dead"
    /\ transition_proc = NoProc /\ \A i \in 1..Len(clipLog) : clipLog[i][1] # Filler

\* the transform process of the last entry started ended its output with a
\* failure exit, without a skip and without a sink failure
FailedNatural == started # <<>> /\ outcome = "natural" /\ normalize_proc.rc # 0
\* the chunks the transform process of the last entry started emitted
Emitted == [k \in 1..normalize_proc.total |-> <<LastStarted[2], k>>]

\* C17: after a failure exit of the transform process (no skip, no sink
\* failure) the chunks it emitted are all in the sink, a whole filler follows
\* them when the sink stayed alive and the filler process did not fail, the
\* id of the entry is in the Progress Store once the save is done, the loop is
\* at the next index, and the loop has not ended.
ThmC17 ==
    [][FailedNatural =>
          /\ pc \in {"finally", "ptrans", "trelay", "tfinally", "save", "age", "scan", "fetch"}
          /\ IsPrefix(Emitted, clipLog)
          /\ (pc \in {"save", "age"} /\ stream_proc = "alive" /\ crashes = 1)
                => clipLog = Emitted \o FillerSegs
          /\ pc \in {"age", "scan", "fetch"} => progress = LastStarted[2]
          /\ (pc = "age" /\ pc' # pc) => (pc' = "scan" /\ idx' = LastStarted[1] + 1)
          /\ pc' \notin {"returned", "exited"}]_vars
WitC17 ==
    /\ FailedNatural /\ normalize_proc.total = 1 /\ pc = "scan"
    /\ idx <= Len(media_files) /\ progress = LastStarted[2]
    /\ clipLog = Emitted \o FillerSegs

\* C18: once the relay loop of an entry was left because the sink could not be
\* written, pipe_to_stream returns: the playback loop gets to the save of the
\* entry, with the transform process no longer running.
ClaimC18 ==
    (pc = "finally" /\ outcome = "sinkfail") ~> (pc = "save" /\ ~Alive(normalize_proc))

\* C19: when the process has exited after one termination signal (in a run
\* without skips and without failures before it), no child process is alive:
\* no transform process, no filler process, no sink.
ClaimC19 ==
    (pc = "exited" /\ signals = 1 /\ quiet) =>
        (~Alive(normalize_proc) /\ ~Alive(transition_proc) /\ AliveSinks = 0)

\* C20: when the process has exited after a termination signal (in a run
\* without skips and without failures before it), the Progress Store holds
\* the id of the last entry whose relay has ended.
ClaimC20 == (pc = "exited" /\ quiet /\ lastRelayed # None) => progress = lastRelayed

\* C21: after the chat transport has dropped, the chat listener is eventually
\* listening again.
ClaimC21 == (chat = "closed") ~> (chat = "listening")

\* C22: when the playback loop has ended on an empty playlist, the sink
\* process has been stopped.
ClaimC22 == pc = "returned" => AliveSinks = 0

ScannedBefore(i) ==
    \E j \in StartIndex(media_files, last_played)..(i - 1) : media_files[j] = media_files[i]

\* C24: no id is started twice, and the step that passes an entry whose id the
\* pass has already come by moves to the next index and leaves the transform
\* process, the filler process, the sink log, the Progress Store and the
\* history of started entries as they are.
ThmC24 ==
    [][/\ Distinct([i \in 1..Len(started') |-> started'[i][2]])
       /\ (pc = "scan" /\ idx <= Len(media_files) /\ ScannedBefore(idx)
             /\ <<pc, idx>>' # <<pc, idx>>) =>
             /\ pc' = "scan" /\ idx' = idx + 1
             /\ normalize_proc' = normalize_proc /\ transition_proc' = transition_proc
             /\ clipLog' = clipLog /\ progress' = progress
             /\ started' = started /\ played_ids' = played_ids]_vars
WitC24 ==
    /\ firstPass /\ last_played = None /\ media_files = <<1, 1, 2>>
    /\ pc = "scan" /\ idx = 3 /\ started = << <<1, 1>> >> /\ progress = 1

\* C25: after the skip trigger was set during an entry's relay, at most one
\* further chunk of that entry is written to the sink.
ClaimC25 == chunksAfterSkip <= 1

\* what one entry can have written: chunks 1..n of it, then chunks 1..m of
\* one filler
OneClipThenFiller ==
    \E n \in 0..ClipLen, m \in 0..FillerLen :
        clipLog = SubSeq(ClipSegs(LastStarted[2]), 1, n) \o SubSeq(FillerSegs, 1, m)

\* C26: the transform process and the filler process are never alive together;
\* the transition starts only after the transform process has exited; once
\* play_transition has returned the filler process has exited, and once
\* pipe_to_stream has returned both have; what is written for an entry is
\* chunks of that entry in order followed by chunks of one filler.
ThmC26 ==
    /\ ~(Alive(normalize_proc) /\ Alive(transition_proc))
    /\ pc = "ptrans" => ~Alive(normalize_proc)
    /\ (pc = "finally" /\ outcome = "skip") => ~Alive(transition_proc)
    /\ pc \in {"save", "age", "scan", "fetch"} =>
          (~Alive(normalize_proc) /\ ~Alive(transition_proc))
    /\ started # <<>> => OneClipThenFiller
WitC26 ==
    /\ pc = "save" /\ outcome = "sinkfail"
    /\ normalize_proc = [st |-> "exit", total |-> ClipLen, rc |-> 0]

\* C27: pipe_to_stream always returns: a relay that has begun is followed by
\* the save of its entry.
ClaimC27 == (pc = "relay") ~> (pc = "save")

\* C28: at the step at which the skip trigger becomes set the vote set becomes
\* (or stays) empty.
ClaimC28 == [][(~skip_event /\ skip_event') => skip_votes' = {}]_vars

\* filler segments written since the current entry was started
FillerCount == Cardinality({ i \in 1..Len(clipLog) : clipLog[i][1] = Filler })

\* C29: once pipe_to_stream has returned for an entry, played to its end or
\* skipped, exactly one whole filler has been written after its chunks, and
\* nothing after the filler, until the next entry starts.
ThmC29 ==
    (started # <<>> /\ pc \in {"save", "age", "scan", "fetch"}) =>
        (FillerCount = FillerLen /\ EndsWithFiller)
WitC29 ==
    /\ pc = "scan" /\ idx = 2 /\ outcome = "skip"
    /\ clipLog = ClipSegs(LastStarted[2]) \o FillerSegs

\* C30: a step of the chat listener leaves the playback loop's variables, the
\* playlist and the Progress Store, the sink, the transform process and the
\* filler process as they are and never unsets the skip trigger; and the vote
\* set changes only in steps of the chat listener.
ThmC30 ==
    [][/\ \A u \in Users, t \in Texts :
             OnMessage(u, t) =>
                 /\ UNCHANGED << loopVars, storeVars, sinkVars, clipVars, fillerVars >>
                 /\ skip_event => skip_event'
       /\ skip_votes' # skip_votes => \E u \in Users, t \in Texts : OnMessage(u, t)]_vars
WitC30 ==
    /\ pc = "relay" /\ lastSkipBy = "votes" /\ skip_event /\ skip_votes = {}
    /\ Cardinality(clipVoters) = skip_threshold

\* C31: graceful_shutdown can be run again, on top of itself or after it: a
\* run that finds the transform process or the sink no longer alive leaves
\* it alone and goes on, terminate is sent to live processes only, every run
\* that is not interrupted ends in sys.exit, and once a second signal has
\* arrived the process exits.
ThmC31 ==
    /\ [][/\ (hpc = "norm" /\ ~Alive(normalize_proc) /\ hpc' # hpc /\ signals' = signals)
               => (hpc' = "sink" /\ normalize_proc' = normalize_proc)
          /\ (hpc = "sink" /\ stream_proc # "alive" /\ hpc' # hpc /\ signals' = signals)
               => (hpc' = "exit" /\ stream_proc' = stream_proc)
          /\ (hpc # "nwait" /\ hpc' = "nwait") => Alive(normalize_proc)
          /\ (hpc # "swait" /\ hpc' = "swait") => stream_proc = "alive"
          /\ (hpc = "exit" /\ hpc' # hpc /\ signals' = signals)
               => (hpc' = "none" /\ pc' \in {"exited", "xwait"})]_vars
    /\ (signals >= 2) ~> (pc = "exited")
WitC31 ==
    /\ pc = "exited" /\ signals = 2 /\ reentered /\ hpc = "none"
    /\ normalize_proc.st = "exit" /\ normalize_proc.rc = 1 /\ stream_proc = "dead"

\* C32: an entry whose announcement failed is played like any other: all its
\* chunks reach the sink unless it is skipped, then one filler, then its id
\* is saved; and the playback loop never ends.
ThmC32 ==
    /\ [](pc \notin {"returned", "died", "exited"})
    /\ (pc = "relay" /\ announceErr) ~>
          (/\ pc = "age" /\ announceErr /\ progress = MediaId
           /\ outcome \in {"natural", "skip"}
           /\ outcome = "natural" => clipLog = ClipSegs(MediaId) \o FillerSegs
           /\ EndsWithFiller)
WitC32 ==
    /\ pc = "age" /\ announceErr /\ irc = "down" /\ idx = 2 /\ progress = MediaId
    /\ outcome = "natural"
    /\ clipLog = ClipSegs(MediaId) \o FillerSegs

\* C33: the end of the snapshot unsets the cursor, and every pass after the
\* first starts at the first entry of the playlist as it is read again then,
\* whatever --video_number was given and whatever the Progress Store holds.
ThmC33 ==
    /\ [](~firstPass => last_played = None)
    /\ [][(pc = "scan" /\ idx > Len(media_files) /\ pc' # pc) =>
             (pc' = "fetch" /\ last_played' = None)]_vars
    /\ [][(~firstPass /\ pc = "fetch" /\ pc' = "scan") =>
             (idx' = 1 /\ media_files' = playlist)]_vars
WitC33 ==
    /\ ~firstPass /\ pc = "scan" /\ idx = 1 /\ start_id = 2 /\ progress = 1
    /\ media_files = <<2, 1, 3>>

\* ids of the entries started so far
StartedIds == { started[i][2] : i \in 1..Len(started) }

\* C34: the Progress Store changes only in the save that follows an entry,
\* and what the save writes is the id of the entry started last, an id of
\* the current snapshot; passing over an entry of the played set writes
\* nothing.
ThmC34 ==
    [][/\ progress' # progress => (pc = "save" /\ pc' = "age")
       /\ (pc = "save" /\ pc' = "age") =>
             /\ started # <<>>
             /\ progress' = LastStarted[2]
             /\ progress' \in StartedIds
             /\ progress' \in Range(media_files)
             /\ LastStarted[1] = idx
       /\ (pc = "scan" /\ idx <= Len(media_files) /\ MediaId \in played_ids
             /\ idx' # idx) => progress' = progress]_vars
WitC34 ==
    /\ pc = "scan" /\ idx = 4 /\ media_files = <<1, 2, 1>> /\ progress = 2
    /\ started = << <<1, 1>>, <<2, 2>> >>

\* C35: a message whose text, trimmed and lower-cased, is not the skip
\* keyword changes neither the vote set nor the skip trigger, whether its
\* sender is allow-listed or not: no step that changes one of the two is the
\* handling of such a message.
ThmC35 ==
    [][(skip_votes' # skip_votes \/ skip_event' # skip_event) =>
          \A t \in Texts : Lower(Strip(t)) # SkipKeyword =>
              \A u \in Users : ~OnMessage(u, t)]_vars
WitC35 ==
    /\ chatter /\ chat = "listening" /\ pc = "relay"
    /\ skip_votes = {} /\ ~skip_event /\ lastSkipBy = "none" /\ clipVoters = {}

\* the step in which pipe_to_stream cancels the current entry
Cancel == pc = "relay" /\ outcome' = "skip" /\ outcome # "skip"

\* C36: the step that cancels an entry finds the skip trigger set and unsets
\* it, however often it was set before; the trigger is set by the chat
\* listener only; so every cancellation has a setting of its own, made
\* after the cancellation before it.
ThmC36 ==
    [][/\ Cancel => (skip_event /\ ~skip_event' /\ lastSkipBy # "none"
                       /\ lastSkipBy' = "none")
       /\ (~skip_event /\ skip_event') =>
             /\ \E u \in Users, t \in Texts : OnMessage(u, t)
             /\ lastSkipBy' # "none"
       /\ (skip_event /\ ~skip_event') => Cancel
       /\ (lastSkipBy' # lastSkipBy /\ lastSkipBy' # "none") => skip_event']_vars
WitC36 ==
    /\ pc = "save" /\ outcome = "skip" /\ collapsed /\ ~skip_event
    /\ lastSkipBy = "none" /\ Len(started) = 1

\* progress.json holds no cursor that can be read
Unreadable == progress \in {None, EmptyFile, BadJson, BadBytes}

\* C37: started without --video_number on a progress.json that is missing,
\* empty or not valid JSON, the process does not end: load_progress gives no
\* cursor, the first pass starts at the first entry, and the file holds
\* the id of an entry as soon as one was saved.
ClaimC37 ==
    /\ (start_id = None /\ Unreadable) =>
          /\ pc # "died"
          /\ pc # "main" => last_played = None
          /\ pc = "scan" => idx = 1
    /\ pc = "age" => ~Unreadable

====
